---- MODULE Spec2Model ----
(***************************************************************************)
(* A model of fuzzy-allocator: the indicator engine                        *)
(* (fuzzy_allocator/trading_funcs.py), the signal generator and the ticker *)
(* orchestrator (fuzzy_allocator/fetch.py) and the provider loop           *)
(* (fuzzy_allocator/fetch_historical_data.py).                             *)
(*                                                                         *)
(* Numbers.  The program works on float64.  The model works on exact       *)
(* rationals, records [nan, num, den] with den > 0 in lowest terms, and    *)
(* carries pandas' missing value as nan = TRUE.  Rounding is not modelled. *)
(* A closing price is a positive integer or NaN (a bar whose close the     *)
(* provider left missing).                                                 *)
(***************************************************************************)
EXTENDS Integers, Sequences, FiniteSets

VARIABLES
    df,       \* the "Close" column of the frame under analysis
    call,     \* the most recent call of a function: its name, arguments, result
    stdout,   \* the lines printed so far
    tickers,  \* main's argument: the list of symbols
    data,     \* download_ticker_data's dict: symbol -> "Close" column
    keys,     \* the keys of data in insertion order (dict iteration order)
    pc        \* where main is: "start", "download", "loop", "done", "raised"

vars == <<df, call, stdout, tickers, data, keys, pc>>

-----------------------------------------------------------------------------
(* Bounds of the model.                                                    *)

MaxLen == 5          \* longest series of the indicator specification
MaxPrice == 3        \* closing prices are 1..MaxPrice
MaxMaPeriod == 3     \* ma_period ranges over 1..MaxMaPeriod
MaxLookback == 3     \* lookback ranges over 1..MaxLookback

-----------------------------------------------------------------------------
(* float64 as exact rationals, with NaN.                                   *)

NaN == -1

Abs(x) == IF x < 0 THEN -x ELSE x

RECURSIVE GCD(_, _)
GCD(a, b) == IF b = 0 THEN a ELSE GCD(b, a % b)

NaNR == [nan |-> TRUE, num |-> 0, den |-> 1]

\* n/d in lowest terms (d # 0).
Q(n, d) ==
    LET g == GCD(Abs(n), Abs(d))
        s == IF d < 0 THEN -1 ELSE 1
    IN  [nan |-> FALSE, num |-> s * (n \div g), den |-> s * (d \div g)]

R(n) == Q(n, 1)

\* Any comparison with NaN is False (IEEE 754, as Python and numpy have it).
Lt(x, y) == ~x.nan /\ ~y.nan /\ x.num * y.den < y.num * x.den
Le(x, y) == ~x.nan /\ ~y.nan /\ x.num * y.den <= y.num * x.den
Gt(x, y) == Lt(y, x)
Ge(x, y) == Le(y, x)

RAdd(x, y) ==
    IF x.nan \/ y.nan THEN NaNR
    ELSE Q(x.num * y.den + y.num * x.den, x.den * y.den)

RSub(x, y) ==
    IF x.nan \/ y.nan THEN NaNR
    ELSE Q(x.num * y.den - y.num * x.den, x.den * y.den)

RMul(x, y) ==
    IF x.nan \/ y.nan THEN NaNR ELSE Q(x.num * y.num, x.den * y.den)

\* float division: 0/0 is NaN and raises nothing.  x/0 with x # 0 is +-inf,
\* which no series of positive prices produces.
RDiv(x, y) ==
    IF x.nan \/ y.nan \/ y.num = 0 THEN NaNR
    ELSE Q(x.num * y.den, x.den * y.num)

\* A closing price as a float.
F(c) == IF c = NaN THEN NaNR ELSE R(c)

-----------------------------------------------------------------------------
(* pandas: rolling windows, dropna, iloc.                                  *)

RECURSIVE SumSeq(_)
SumSeq(s) == IF s = <<>> THEN 0 ELSE Head(s) + SumSeq(Tail(s))

RECURSIVE SumSq(_)
SumSq(s) == IF s = <<>> THEN 0 ELSE Head(s) * Head(s) + SumSq(Tail(s))

\* The window of `window` bars ending at bar i (i >= window).
Window(close, i, window) == SubSeq(close, i - window + 1, i)

\* rolling(window) has min_periods = window: a result needs `window`
\* observations, none of them NaN.
WindowFull(close, i, window) ==
    /\ i >= window
    /\ \A j \in (i - window + 1)..i : close[j] # NaN

\* close.rolling(window).mean()
rolling_mean(close, window) ==
    [i \in 1..Len(close) |->
        IF WindowFull(close, i, window)
        THEN Q(SumSeq(Window(close, i, window)), window)
        ELSE NaNR]

\* close.rolling(window).var(), ddof = 1: NaN when the window holds at most
\* ddof observations.
rolling_var(close, window) ==
    [i \in 1..Len(close) |->
        IF WindowFull(close, i, window) /\ window > 1
        THEN LET w == Window(close, i, window)
             IN  Q(window * SumSq(w) - SumSeq(w) * SumSeq(w),
                   window * (window - 1))
        ELSE NaNR]

\* Series.dropna(): the defined entries, in order.
dropna(col) == SelectSeq(col, LAMBDA x : ~x.nan)

\* Series.iloc[-n:] for n >= 1: the last n entries, all of them when there
\* are fewer.
iloc_tail(s, n) ==
    SubSeq(s, IF Len(s) > n THEN Len(s) - n + 1 ELSE 1, Len(s))

-----------------------------------------------------------------------------
(* scipy.stats.percentileofscore(a, score), kind = "rank" (the default).   *)

CountLt(a, score) == Cardinality({i \in 1..Len(a) : Lt(a[i], score)})
CountLe(a, score) == Cardinality({i \in 1..Len(a) : Le(a[i], score)})

percentileofscore_mean(a, score) ==
    Q((CountLt(a, score) + CountLe(a, score)) * 50, Len(a))

percentileofscore_weak(a, score) ==
    Q(CountLe(a, score) * 100, Len(a))

percentileofscore(a, score) ==
    LET left == CountLt(a, score)
        right == CountLe(a, score)
        plus1 == IF left < right THEN 1 ELSE 0
    IN  Q((left + right + plus1) * 50, Len(a))

-----------------------------------------------------------------------------
(* trading_funcs.py                                                        *)

None == [none |-> TRUE, current |-> NaNR, percentile |-> NaNR]
Pair(current, percentile) ==
    [none |-> FALSE, current |-> current, percentile |-> percentile]

\* df["PMARP"] = close / ma
PMARP(close, ma_period) ==
    LET ma == rolling_mean(close, ma_period)
    IN  [i \in 1..Len(close) |-> RDiv(F(close[i]), ma[i])]

compute_pmarp_tail_first(close, ma_period, lookback) ==
    LET col == PMARP(close, ma_period)
    IN  IF Len(dropna(col)) < lookback THEN None
        ELSE LET historical_ratios == dropna(iloc_tail(col, lookback))
             IN  IF historical_ratios = <<>> THEN Pair(NaNR, NaNR)
                 ELSE LET current_ratio ==
                              historical_ratios[Len(historical_ratios)]
                      IN  Pair(current_ratio,
                               percentileofscore(historical_ratios,
                                                 current_ratio))

compute_pmarp_bars(close, ma_period, lookback) ==
    LET col == PMARP(close, ma_period)
    IN  IF Len(dropna(col)) < lookback + ma_period THEN None
        ELSE LET historical_ratios == iloc_tail(dropna(col), lookback)
                 current_ratio == historical_ratios[Len(historical_ratios)]
             IN  Pair(current_ratio,
                      percentileofscore(historical_ratios, current_ratio))

compute_pmarp(close, ma_period, lookback) ==
    LET col == PMARP(close, ma_period)
    IN  IF Len(dropna(col)) < lookback THEN None
        ELSE LET historical_ratios == iloc_tail(dropna(col), lookback)
                 current_ratio == historical_ratios[Len(historical_ratios)]
             IN  Pair(current_ratio,
                      percentileofscore(historical_ratios, current_ratio))

\* (close - MA)^2 with the sign of close - MA.
SignedSquare(x) ==
    IF x.nan THEN NaNR
    ELSE Q((IF x.num < 0 THEN -1 ELSE 1) * x.num * x.num, x.den * x.den)

\* UpperBand == LowerBand at bar i: both bands are defined and 2 * std_bb
\* is zero there.
ZeroWidth(close, ma_period, i) ==
    LET var == rolling_var(close, ma_period)
    IN  ~var[i].nan /\ var[i].num = 0

BB_Pos_midpoint(close, ma_period) ==
    LET ma == rolling_mean(close, ma_period)
        var == rolling_var(close, ma_period)
    IN  [i \in 1..Len(close) |->
            IF ~var[i].nan /\ var[i].num = 0 THEN R(0)
            ELSE RDiv(SignedSquare(RSub(F(close[i]), ma[i])), var[i])]

\* df["BB_Pos"] = (close - LowerBand) / (UpperBand - LowerBand), the bands
\* being MA_bb -+ 2 * std_bb.  With d = close - MA_bb the quotient is
\* (d + 2 std) / (4 std) = 1/2 + (d / std) / 4; std is a square root, so the
\* model carries a position as z2 = sign(d) * d^2 / var, of which the
\* position is a strictly increasing function: order, ties and definedness
\* of positions are those of z2.  A zero-width band has d = 0 (every close
\* of the window is the mean), and the quotient is 0/0 = NaN.
BB_Pos(close, ma_period) ==
    LET ma == rolling_mean(close, ma_period)
        var == rolling_var(close, ma_period)
    IN  [i \in 1..Len(close) |->
            RDiv(SignedSquare(RSub(F(close[i]), ma[i])), var[i])]

compute_bb_percentile(close, ma_period, lookback) ==
    LET col == BB_Pos(close, ma_period)
    IN  IF Len(dropna(col)) < lookback THEN None
        ELSE LET historical_pos == iloc_tail(dropna(col), lookback)
                 current_pos == historical_pos[Len(historical_pos)]
             IN  Pair(current_pos,
                      percentileofscore(historical_pos, current_pos))

\* One step of pandas' ewm(span, adjust=False, ignore_na=False).mean() on
\* the state <<weighted, old_wt>>, with alpha = 2 / (span + 1).
ewm_step(st, cur, span) ==
    LET alpha == Q(2, span + 1)
        old_wt_factor == RSub(R(1), alpha)
        weighted == st[1]
        old_wt == RMul(st[2], old_wt_factor)
    IN  IF ~weighted.nan
        THEN IF ~cur.nan
             THEN <<IF weighted # cur
                    THEN RDiv(RAdd(RMul(old_wt, weighted), RMul(alpha, cur)),
                              RAdd(old_wt, alpha))
                    ELSE weighted,
                    R(1)>>
             ELSE <<weighted, old_wt>>
        ELSE IF ~cur.nan THEN <<cur, st[2]>> ELSE st

RECURSIVE ewm_state(_, _, _)
ewm_state(close, span, i) ==
    IF i = 1 THEN <<F(close[1]), R(1)>>
    ELSE ewm_step(ewm_state(close, span, i - 1), F(close[i]), span)

\* close.ewm(span=span, adjust=False).mean(): seeded from the first value.
ewm_mean(close, span) ==
    [i \in 1..Len(close) |-> ewm_state(close, span, i)[1]]

Trend(short_last, long_last) ==
    IF Gt(short_last, long_last) THEN "Uptrend"
    ELSE IF Lt(short_last, long_last) THEN "Downtrend"
    ELSE "Sideways"

compute_ema_trend_long_first(close, short_period, long_period) ==
    IF close = <<>> THEN "IndexError"
    ELSE Trend(ewm_mean(close, long_period)[Len(close)],
               ewm_mean(close, short_period)[Len(close)])

\* .iloc[-1] of an empty Series raises IndexError.
compute_ema_trend(close, short_period, long_period) ==
    IF close = <<>> THEN "IndexError"
    ELSE Trend(ewm_mean(close, short_period)[Len(close)],
               ewm_mean(close, long_period)[Len(close)])

-----------------------------------------------------------------------------
(* fetch.py: the signal generator.  A message is carried as its wording;   *)
(* the percentile it quotes to one decimal is left out.                    *)

generate_take_profit_signal_standard_first(pmarp_percentile, standard_threshold, long_term_threshold) ==
    IF Ge(pmarp_percentile, standard_threshold) THEN "Standard signal"
    ELSE IF Ge(pmarp_percentile, long_term_threshold) THEN "Long-term signal"
    ELSE "No take profit signal"

generate_take_profit_signal(pmarp_percentile, standard_threshold, long_term_threshold) ==
    IF Ge(pmarp_percentile, long_term_threshold) THEN "Long-term signal"
    ELSE IF Ge(pmarp_percentile, standard_threshold) THEN "Standard signal"
    ELSE "No take profit signal"

generate_buy_signal_strict(pmarp_percentile, buy_threshold) ==
    IF Lt(pmarp_percentile, buy_threshold) THEN "Buy signal"
    ELSE "No buy signal"

generate_buy_signal(pmarp_percentile, buy_threshold) ==
    IF Le(pmarp_percentile, buy_threshold) THEN "Buy signal"
    ELSE "No buy signal"

generate_final_signal_sell_first(pmarp_percentile, bb_percentile, buy_threshold, sell_threshold) ==
    IF Ge(pmarp_percentile, sell_threshold)
       /\ Ge(bb_percentile, sell_threshold) THEN "Sell"
    ELSE IF Le(pmarp_percentile, buy_threshold)
            /\ Le(bb_percentile, buy_threshold) THEN "Buy"
    ELSE "Hold"

generate_final_signal(pmarp_percentile, bb_percentile, buy_threshold, sell_threshold) ==
    IF Le(pmarp_percentile, buy_threshold)
       /\ Le(bb_percentile, buy_threshold) THEN "Buy"
    ELSE IF Ge(pmarp_percentile, sell_threshold)
            /\ Ge(bb_percentile, sell_threshold) THEN "Sell"
    ELSE "Hold"

-----------------------------------------------------------------------------
(* fetch.py: analyze_ticker.                                               *)

\* The thresholds analyze_ticker passes or leaves to their defaults.
STANDARD_THRESHOLD == 75
LONG_TERM_THRESHOLD == 90
BUY_THRESHOLD == 25
SELL_THRESHOLD == 90

\* The windows analyze_ticker passes, which are 50, 100, 20, 50 and 200 bars
\* in the source, scaled down to what series of AnalyzeMaxLen bars can fill.
PmarpMaPeriod == 2
BbMaPeriod == 2
AnalyzeLookback == 4
EmaShortPeriod == 2
EmaLongPeriod == 3

\* What analyze_ticker prints, a line being <<what, wording>>, and whether
\* it raised: compute_ema_trend's IndexError on an empty frame is caught
\* nowhere.
analyze_ticker(close) ==
    LET pmarp_results == compute_pmarp(close, PmarpMaPeriod, AnalyzeLookback)
        bb_results == compute_bb_percentile(close, BbMaPeriod, AnalyzeLookback)
        trend == compute_ema_trend(close, EmaShortPeriod, EmaLongPeriod)
        pmarp_lines ==
            IF ~pmarp_results.none
            THEN << <<"PMARP", "">>,
                    <<"take_profit",
                      generate_take_profit_signal(pmarp_results.percentile,
                          R(STANDARD_THRESHOLD), R(LONG_TERM_THRESHOLD))>>,
                    <<"buy",
                      generate_buy_signal(pmarp_results.percentile,
                                          R(BUY_THRESHOLD))>> >>
            ELSE << <<"ERROR", "Insufficient data for PMARP computation.">> >>
        bb_lines ==
            IF ~bb_results.none
            THEN << <<"Bollinger Bands Position", "">> >>
            ELSE << <<"ERROR",
                      "Insufficient data for Bollinger Bands percentile computation.">> >>
    IN  IF trend = "IndexError"
        THEN [lines |-> pmarp_lines \o bb_lines, raised |-> TRUE]
        ELSE [lines |->
                pmarp_lines \o bb_lines \o << <<"Trend", trend>> >> \o
                (IF ~pmarp_results.none /\ ~bb_results.none
                 THEN << <<"Final Signal",
                           generate_final_signal(pmarp_results.percentile,
                               bb_results.percentile,
                               R(BUY_THRESHOLD), R(SELL_THRESHOLD))>> >>
                 ELSE <<>>),
              raised |-> FALSE]

-----------------------------------------------------------------------------
(* The calls of the pure functions, on inputs drawn from bounded sets.     *)

NoCall == [fn |-> "", args |-> <<>>, ret |-> ""]
NoData == [t \in {} |-> <<>>]

Closes(maxprice) == (1..maxprice) \cup {NaN}

\* The provider hands over one more bar.
AppendBar(maxlen, maxprice) ==
    /\ Len(df) < maxlen
    /\ \E c \in Closes(maxprice) : df' = Append(df, c)
    /\ call' = NoCall
    /\ stdout' = <<>>
    /\ UNCHANGED <<tickers, data, keys, pc>>

InitPure ==
    /\ df = <<>>
    /\ call = NoCall
    /\ stdout = <<>>
    /\ tickers = <<>>
    /\ data = NoData
    /\ keys = <<>>
    /\ pc = "start"

(* The indicator engine. *)

AppendIndicatorBar == AppendBar(MaxLen, MaxPrice)

CallComputePmarp ==
    /\ call = NoCall
    /\ \E ma_period \in 1..MaxMaPeriod, lookback \in 1..MaxLookback :
          call' = [fn |-> "compute_pmarp",
                   args |-> <<ma_period, lookback>>,
                   ret |-> compute_pmarp(df, ma_period, lookback)]
    /\ UNCHANGED <<df, stdout, tickers, data, keys, pc>>

CallComputeBbPercentile ==
    /\ call = NoCall
    /\ \E ma_period \in 1..MaxMaPeriod, lookback \in 1..MaxLookback :
          call' = [fn |-> "compute_bb_percentile",
                   args |-> <<ma_period, lookback>>,
                   ret |-> compute_bb_percentile(df, ma_period, lookback)]
    /\ UNCHANGED <<df, stdout, tickers, data, keys, pc>>

Next == AppendIndicatorBar \/ CallComputePmarp \/ CallComputeBbPercentile

Spec == InitPure /\ [][Next]_vars

(* The trend. *)

TrendMaxLen == 4
TrendMaxPrice == 5
MaxSpan == 3

AppendTrendBar == AppendBar(TrendMaxLen, TrendMaxPrice)

CallComputeEmaTrend ==
    /\ call = NoCall
    /\ \E short_period \in 1..MaxSpan, long_period \in 1..MaxSpan :
          call' = [fn |-> "compute_ema_trend",
                   args |-> <<short_period, long_period>>,
                   ret |-> compute_ema_trend(df, short_period, long_period)]
    /\ UNCHANGED <<df, stdout, tickers, data, keys, pc>>

NextTrend == AppendTrendBar \/ CallComputeEmaTrend

SpecTrend == InitPure /\ [][NextTrend]_vars

(* The signal generator. *)

PctSteps == 40
Percentiles == {Q(100 * k, PctSteps) : k \in 0..PctSteps}
Thresholds == {R(10), R(25), R(75), R(90)}

Pending(fn, args) == [fn |-> fn, args |-> args, ret |-> "pending"]

\* A call of a signal function about to be made, with its arguments.
InitSignal ==
    /\ df = <<>>
    /\ stdout = <<>>
    /\ tickers = <<>>
    /\ data = NoData
    /\ keys = <<>>
    /\ pc = "start"
    /\ \/ \E p \in Percentiles, st \in Thresholds, lt \in Thresholds :
             call = Pending("generate_take_profit_signal", <<p, st, lt>>)
       \/ \E p \in Percentiles, bt \in Thresholds :
             call = Pending("generate_buy_signal", <<p, bt>>)
       \/ \E p \in Percentiles, b \in Percentiles,
             bt \in Thresholds, st \in Thresholds :
             call = Pending("generate_final_signal", <<p, b, bt, st>>)

CallGenerateTakeProfitSignal ==
    /\ call.fn = "generate_take_profit_signal"
    /\ call.ret = "pending"
    /\ call' = [call EXCEPT !.ret =
          generate_take_profit_signal(call.args[1], call.args[2], call.args[3])]
    /\ UNCHANGED <<df, stdout, tickers, data, keys, pc>>

CallGenerateBuySignal ==
    /\ call.fn = "generate_buy_signal"
    /\ call.ret = "pending"
    /\ call' = [call EXCEPT !.ret =
          generate_buy_signal(call.args[1], call.args[2])]
    /\ UNCHANGED <<df, stdout, tickers, data, keys, pc>>

CallGenerateFinalSignal ==
    /\ call.fn = "generate_final_signal"
    /\ call.ret = "pending"
    /\ call' = [call EXCEPT !.ret =
          generate_final_signal(call.args[1], call.args[2],
                                call.args[3], call.args[4])]
    /\ UNCHANGED <<df, stdout, tickers, data, keys, pc>>

NextSignal ==
    \/ CallGenerateTakeProfitSignal
    \/ CallGenerateBuySignal
    \/ CallGenerateFinalSignal

SpecSignal == InitSignal /\ [][NextSignal]_vars

(* analyze_ticker on one frame. *)

AnalyzeMaxLen == 5
AnalyzeMaxPrice == 4

AppendAnalyzeBar == AppendBar(AnalyzeMaxLen, AnalyzeMaxPrice)

CallAnalyzeTicker ==
    /\ call = NoCall
    /\ LET r == analyze_ticker(df)
       IN  /\ call' = [fn |-> "analyze_ticker", args |-> <<>>,
                       ret |-> IF r.raised THEN "IndexError" ELSE "None"]
           /\ stdout' = r.lines
    /\ UNCHANGED <<df, tickers, data, keys, pc>>

NextAnalyze == AppendAnalyzeBar \/ CallAnalyzeTicker

SpecAnalyze == InitPure /\ [][NextAnalyze]_vars

-----------------------------------------------------------------------------
(* fetch.py: main, with fetch_historical_data.py: download_ticker_data.    *)

MaxTickers == 2
Symbols == {"NVDA", "COST"}

Range(f) == {f[i] : i \in DOMAIN f}

TickerLists ==
    UNION {[1..n -> Symbols] : n \in 0..MaxTickers}

\* A series of n bars that rises, falls or stays by `step` a bar from
\* `start`, and whose last bar closes anywhere.
Ramp(n, start, step, last) ==
    [i \in 1..n |-> IF i = n THEN last ELSE start + step * (i - 1)]

\* What the provider returns for a symbol: no bar at all, too few bars for
\* an indicator, or enough of them.
ProviderSeries ==
    {<<>>} \cup
    {s \in {Ramp(n, start, step, last) :
                n \in 1..AnalyzeMaxLen, start \in 1..AnalyzeMaxPrice,
                step \in {-1, 0, 1}, last \in Closes(AnalyzeMaxPrice)} :
        \A i \in DOMAIN s : s[i] \in Closes(AnalyzeMaxPrice)}

\* The keys of a dict filled in the order of `s`: first occurrences.
RECURSIVE InsertionOrder(_)
InsertionOrder(s) ==
    IF s = <<>> THEN <<>>
    ELSE LET front == InsertionOrder(SubSeq(s, 1, Len(s) - 1))
             last == s[Len(s)]
         IN  IF last \in Range(front) THEN front ELSE Append(front, last)

InitMain ==
    /\ df = <<>>
    /\ call = NoCall
    /\ stdout = <<>>
    /\ tickers \in TickerLists
    /\ data = NoData
    /\ keys = <<>>
    /\ pc = "start"

\* data = download_ticker_data(tickers, period, interval): one download a
\* ticker, in order, each announced on stdout.
download_ticker_data ==
    /\ pc = "start"
    /\ data' \in [Range(tickers) -> ProviderSeries]
    /\ keys' = InsertionOrder(tickers)
    /\ stdout' = [i \in 1..Len(tickers) |-> <<"Downloading", tickers[i]>>]
    /\ pc' = "loop"
    /\ UNCHANGED <<df, call, tickers>>

\* One turn of `for ticker, df in data.items()`: the header, then
\* analyze_ticker(df).  What analyze_ticker raises leaves main, and the
\* process ends with the traceback.
main_analyze ==
    /\ pc = "loop"
    /\ keys # <<>>
    /\ LET ticker == Head(keys)
           r == analyze_ticker(data[ticker])
       IN  /\ df' = data[ticker]
           /\ stdout' = stdout \o << <<"Analysis", ticker>> >> \o r.lines
           /\ call' = [fn |-> "analyze_ticker", args |-> <<ticker>>,
                       ret |-> IF r.raised THEN "IndexError" ELSE "None"]
           /\ IF r.raised
              THEN pc' = "raised" /\ keys' = keys
              ELSE pc' = "loop" /\ keys' = Tail(keys)
    /\ UNCHANGED <<tickers, data>>

\* The loop is over: main returns.
main_return ==
    /\ pc = "loop"
    /\ keys = <<>>
    /\ pc' = "done"
    /\ UNCHANGED <<df, call, stdout, tickers, data, keys>>

NextMain == download_ticker_data \/ main_analyze \/ main_return

SpecMain == InitMain /\ [][NextMain]_vars

-----------------------------------------------------------------------------
(* The claims.  What follows states properties of the model above; the     *)
(* comparisons are written out on numerators and denominators.             *)

AtMost(x, y) == x.num * y.den <= y.num * x.den
Below(x, y) == x.num * y.den < y.num * x.den
Same(x, y) == x.num * y.den = y.num * x.den

Returned(fn) == call.fn = fn /\ call.ret # "pending"

\* C1: generate_final_signal returns "Buy" when both percentiles are <=
\* buy_threshold, otherwise "Sell" when both are >= sell_threshold, otherwise
\* "Hold"; when both conditions hold at once the result is "Buy".
C1_FinalSignalPriority ==
    Returned("generate_final_signal") =>
        LET p == call.args[1]
            b == call.args[2]
            buy == call.args[3]
            sell == call.args[4]
            bothLow == AtMost(p, buy) /\ AtMost(b, buy)
            bothHigh == AtMost(sell, p) /\ AtMost(sell, b)
        IN  /\ bothLow => call.ret = "Buy"
            /\ ~bothLow /\ bothHigh => call.ret = "Sell"
            /\ ~bothLow /\ ~bothHigh => call.ret = "Hold"

\* C1's case: both conditions hold at once, and the call returned "Buy".
C1_Witness ==
    /\ Returned("generate_final_signal")
    /\ AtMost(call.args[1], call.args[3]) /\ AtMost(call.args[2], call.args[3])
    /\ AtMost(call.args[4], call.args[1]) /\ AtMost(call.args[4], call.args[2])
    /\ Below(call.args[4], call.args[3])
    /\ call.ret = "Buy"

\* C7: generate_take_profit_signal returns the long-term message when
\* pmarp_percentile >= long_term_threshold, otherwise the standard message
\* when pmarp_percentile >= standard_threshold, otherwise the no-signal
\* message, also when long_term_threshold < standard_threshold.
C7_TakeProfitPriority ==
    Returned("generate_take_profit_signal") =>
        LET p == call.args[1]
            standard == call.args[2]
            longTerm == call.args[3]
        IN  /\ AtMost(longTerm, p) => call.ret = "Long-term signal"
            /\ Below(p, longTerm) /\ AtMost(standard, p)
                  => call.ret = "Standard signal"
            /\ Below(p, longTerm) /\ Below(p, standard)
                  => call.ret = "No take profit signal"

\* C7's case: inverted thresholds, a percentile between them, and the
\* long-term message returned.
C7_Witness ==
    /\ Returned("generate_take_profit_signal")
    /\ Below(call.args[3], call.args[2])
    /\ AtMost(call.args[3], call.args[1])
    /\ Below(call.args[1], call.args[2])
    /\ call.ret = "Long-term signal"

\* The indicator column a call of compute_pmarp or compute_bb_percentile
\* ranks, the bars where it is defined, and the lookback most recent of them.
Column ==
    IF call.fn = "compute_pmarp" THEN PMARP(df, call.args[1])
    ELSE BB_Pos(df, call.args[1])

IndicatorCall == call.fn \in {"compute_pmarp", "compute_bb_percentile"}

ValidBars(col) == {i \in 1..Len(col) : ~col[i].nan}

RecentBars(col, lookback) ==
    LET valid == ValidBars(col)
    IN  {i \in valid : Cardinality({j \in valid : j >= i}) <= lookback}

LastBar(bars) == CHOOSE i \in bars : \A j \in bars : j <= i

NumBelow(col, bars, x) == Cardinality({i \in bars : Below(col[i], x)})
NumSame(col, bars, x) == Cardinality({i \in bars : Same(col[i], x)})

\* C2: compute_pmarp and compute_bb_percentile return None exactly when
\* fewer than lookback indicator values are defined; otherwise the current
\* value is the most recent defined one and the percentile ranks it among
\* exactly the lookback most recent defined values.
C2_AbsentIffFewerThanLookback ==
    IndicatorCall =>
        LET col == Column
            lookback == call.args[2]
            valid == ValidBars(col)
            recent == RecentBars(col, lookback)
            x == call.ret.current
        IN  /\ call.ret.none <=> Cardinality(valid) < lookback
            /\ ~call.ret.none =>
                  /\ Cardinality(recent) = lookback
                  /\ x = col[LastBar(valid)]
                  /\ call.ret.percentile =
                        Q((2 * NumBelow(col, recent, x)
                           + NumSame(col, recent, x) + 1) * 50, lookback)

\* C2's case: a result, with an undefined entry among the last lookback
\* entries of the column, so that the window reaches further back.
C2_Witness ==
    /\ IndicatorCall
    /\ ~call.ret.none
    /\ call.args[2] >= 2
    /\ \E i \in 1..Len(df) :
          i > Len(df) - call.args[2] /\ Column[i].nan
    /\ \E i \in RecentBars(Column, call.args[2]) :
          i <= Len(df) - call.args[2]

\* C3 as claimed: the percentile of the current value x in the window of n
\* values is (count(values < x) + 0.5 * count(values == x)) / n * 100.
C3_HalfOfTies ==
    IndicatorCall /\ ~call.ret.none =>
        LET col == Column
            recent == RecentBars(col, call.args[2])
            x == call.ret.current
        IN  call.ret.percentile =
                Q((2 * NumBelow(col, recent, x) + NumSame(col, recent, x))
                  * 50, Cardinality(recent))

\* C3 as amended: the percentile is (count(values < x) + 0.5 *
\* (count(values == x) + 1)) / n * 100, the average of the ranks
\* count(values < x) + 1 .. count(values <= x) of the values equal to x.
C3_AverageRank ==
    IndicatorCall /\ ~call.ret.none =>
        LET col == Column
            recent == RecentBars(col, call.args[2])
            x == call.ret.current
        IN  call.ret.percentile =
                Q((2 * NumBelow(col, recent, x) + NumSame(col, recent, x) + 1)
                  * 50, Cardinality(recent))

\* C3's case: a result whose current value ties with another of the window
\* and exceeds a third.
C3_Witness ==
    /\ IndicatorCall
    /\ ~call.ret.none
    /\ LET col == Column
           recent == RecentBars(col, call.args[2])
       IN  /\ NumSame(col, recent, call.ret.current) >= 2
           /\ NumBelow(col, recent, call.ret.current) >= 1

\* The series before its last bar; compute_pmarp returned a result for it,
\* and the last bar has a ratio.
Earlier == SubSeq(df, 1, Len(df) - 1)

AppendedToResult ==
    /\ call.fn = "compute_pmarp"
    /\ Len(df) >= 1
    /\ ~compute_pmarp(Earlier, call.args[1], call.args[2]).none
    /\ ~Column[Len(df)].nan

\* C4 as claimed: on a series compute_pmarp returns a result for, one more
\* bar whose ratio is greater than or equal to every earlier ratio makes the
\* percentile 100.
C4_MaximumGives100 ==
    /\ AppendedToResult
    /\ LET col == Column
       IN  \A i \in ValidBars(col) : AtMost(col[i], col[Len(df)])
    => call.ret.percentile = R(100)

\* C4 as amended: one more bar whose ratio is strictly greater than every
\* earlier ratio makes the percentile 100.
C4_StrictMaximumGives100 ==
    /\ AppendedToResult
    /\ LET col == Column
       IN  \A i \in ValidBars(col) \ {Len(df)} : Below(col[i], col[Len(df)])
    => call.ret.percentile = R(100)

\* C4's case: a new strict maximum in a window of at least three ratios.
C4_Witness ==
    /\ AppendedToResult
    /\ call.args[2] >= 3
    /\ LET col == Column
       IN  \A i \in ValidBars(col) \ {Len(df)} : Below(col[i], col[Len(df)])
    /\ call.ret.percentile = R(100)

InRange(p) == ~p.nan /\ AtMost(R(0), p) /\ AtMost(p, R(100))

\* C5 as claimed: on a series with at least lookback + ma_period valid
\* closing prices compute_pmarp returns a result, its percentile in [0, 100].
C5_EnoughValidCloses ==
    /\ call.fn = "compute_pmarp"
    /\ Cardinality({i \in 1..Len(df) : df[i] # NaN})
          >= call.args[2] + call.args[1]
    => ~call.ret.none /\ InRange(call.ret.percentile)

\* C5 as amended: on a series of at least lookback + ma_period bars whose
\* closing prices are all valid compute_pmarp returns a result, its
\* percentile in [0, 100].
C5_EnoughBarsAllValid ==
    /\ call.fn = "compute_pmarp"
    /\ Len(df) >= call.args[2] + call.args[1]
    /\ \A i \in 1..Len(df) : df[i] # NaN
    => ~call.ret.none /\ InRange(call.ret.percentile)

\* C5's case: such a series, with a moving average over several bars.
C5_Witness ==
    /\ call.fn = "compute_pmarp"
    /\ call.args[1] >= 2
    /\ call.args[2] >= 2
    /\ Len(df) = call.args[2] + call.args[1]
    /\ \A i \in 1..Len(df) : df[i] # NaN
    /\ ~call.ret.none /\ InRange(call.ret.percentile)

\* C8: in compute_bb_percentile a bar where UpperBand == LowerBand has an
\* undefined (NaN) position, is not counted among the valid values and is
\* never the current position; a constant-price series yields None.
C8_ZeroWidthBandIsUndefined ==
    call.fn = "compute_bb_percentile" =>
        LET col == Column
            var == rolling_var(df, call.args[1])
            flat == {i \in 1..Len(df) : ~var[i].nan /\ var[i].num = 0}
        IN  /\ \A i \in flat : col[i].nan
            /\ Cardinality((1..Len(df)) \ flat) < call.args[2]
                  => call.ret.none
            /\ ~call.ret.none =>
                  \E i \in (1..Len(df)) \ flat :
                      /\ call.ret.current = col[i]
                      /\ \A j \in (i + 1)..Len(df) : col[j].nan
            /\ (\A i \in 1..Len(df) : df[i] = df[1]) => call.ret.none

\* C8's case: a result, the last bar's band being of zero width.
C8_Witness ==
    /\ call.fn = "compute_bb_percentile"
    /\ ~call.ret.none
    /\ ZeroWidth(df, call.args[1], Len(df))
    /\ call.args[2] >= 2

RECURSIVE Pow(_, _)
Pow(b, e) == IF e = 0 THEN 1 ELSE b * Pow(b, e - 1)

\* The last value of the EMA of x_1 .. x_n seeded with x_1, alpha being
\* 2 / (span + 1), as the sum it unrolls to:
\* (1 - alpha)^(n-1) x_1 + sum over j = 2..n of alpha (1 - alpha)^(n-j) x_j.
RECURSIVE EmaTerms(_, _, _)
EmaTerms(x, span, j) ==
    IF j > Len(x) THEN 0
    ELSE 2 * Pow(span - 1, Len(x) - j) * Pow(span + 1, j - 2) * x[j]
         + EmaTerms(x, span, j + 1)

LastEma(x, span) ==
    Q(Pow(span - 1, Len(x) - 1) * x[1] + EmaTerms(x, span, 2),
      Pow(span + 1, Len(x) - 1))

StrictlyIncreasing(x) ==
    /\ \A i \in 1..Len(x) : x[i] # NaN
    /\ \A i \in 1..(Len(x) - 1) : x[i] < x[i + 1]

\* C9: on a strictly increasing series of at least two bars, with
\* short_period < long_period, compute_ema_trend returns "Uptrend"; on any
\* series of defined closes the label is Uptrend, Downtrend or Sideways as
\* the last short EMA (seeded from the first value, alpha = 2 / (span + 1))
\* is greater than, less than or equal to the last long EMA.
C9_IncreasingSeriesIsUptrend ==
    call.fn = "compute_ema_trend" =>
        LET short == call.args[1]
            long == call.args[2]
        IN  /\ Len(df) >= 2 /\ StrictlyIncreasing(df) /\ short < long
                  => call.ret = "Uptrend"
            /\ df # <<>> /\ (\A i \in 1..Len(df) : df[i] # NaN) =>
                  LET s == LastEma(df, short)
                      l == LastEma(df, long)
                  IN  /\ call.ret = "Uptrend" <=> Below(l, s)
                      /\ call.ret = "Downtrend" <=> Below(s, l)
                      /\ call.ret = "Sideways" <=> Same(s, l)

\* C9's case: three rising bars or more, two spans above one bar.
C9_Witness ==
    /\ call.fn = "compute_ema_trend"
    /\ Len(df) >= 3
    /\ StrictlyIncreasing(df)
    /\ 1 < call.args[1] /\ call.args[1] < call.args[2]
    /\ call.ret = "Uptrend"

\* The lines of one run of analyze_ticker.
LinesOf(what) == {i \in 1..Len(stdout) : stdout[i][1] = what}

\* C10: analyze_ticker prints a "Final Signal" line only after a PMARP line
\* and a Bollinger line; with final signal "Sell" the take-profit message
\* printed before it is the long-term one, and with final signal "Buy" the
\* buy message printed before it is the buy-signal one.
C10_PrintedLinesConsistent ==
    call.fn = "analyze_ticker" =>
        \A f \in LinesOf("Final Signal") :
            /\ \E i \in LinesOf("PMARP") : i < f
            /\ \E i \in LinesOf("Bollinger Bands Position") : i < f
            /\ stdout[f][2] \in {"Buy", "Sell", "Hold"}
            /\ stdout[f][2] = "Sell" =>
                  /\ \E i \in LinesOf("take_profit") : i < f
                  /\ \A i \in LinesOf("take_profit") :
                        stdout[i][2] = "Long-term signal"
            /\ stdout[f][2] = "Buy" =>
                  /\ \E i \in LinesOf("buy") : i < f
                  /\ \A i \in LinesOf("buy") : stdout[i][2] = "Buy signal"

\* C10's case: a run that printed the final signal "Buy".
C10_Witness ==
    /\ call.fn = "analyze_ticker"
    /\ \E f \in LinesOf("Final Signal") : stdout[f][2] = "Buy"
    /\ \E i \in LinesOf("buy") : stdout[i][2] = "Buy signal"

\* A run that printed the final signal "Sell".
SellPrinted ==
    /\ call.fn = "analyze_ticker"
    /\ \E f \in LinesOf("Final Signal") : stdout[f][2] = "Sell"

\* The symbols main has not run analyze_ticker on.
NotAnalysed == IF pc = "raised" THEN Tail(keys) ELSE keys

\* C6: whatever one symbol's analysis does, analyze_ticker is run on every
\* remaining symbol: when main is over, no symbol is left.
C6_EverySymbolAnalysed ==
    pc \in {"done", "raised"} => NotAnalysed = <<>>

====
